---- MODULE Spec2Model ----
(***************************************************************************)
(* Model of webscraper.py: the retry loop of scrape_product, the pop-up    *)
(* handler, the extractor, the summarizer call and the /scrape endpoint    *)
(* scrape_and_post.  One job (one call) is modelled; every await and every *)
(* external call is one step whose outcome (return or raise) is chosen by  *)
(* the environment.  Strings are sequences of one-character strings.       *)
(***************************************************************************)
EXTENDS Integers, Sequences, FiniteSets, TLC

(***************************************************************************)
(* Bounds of the model and constants of the program.                       *)
(***************************************************************************)
\* largest max_retries a direct caller of scrape_product passes
MaxRetriesBound == 3

\* scrape_product(url, term, max_retries=3)
DefaultMaxRetries == 3

\* truncate_text(html, max_chars=10000)
MaxChars == 10000

\* len(cookie_selectors), len(signin_selectors)
NumCookieSelectors == 3
NumSigninSelectors == 3

\* HTTPException(status_code=500, ...)
ServerError == 500

\* longest text and largest max_chars given to truncate_text on its own
MaxTextLen == 3

\* the value a Python function returns when it falls off its end, and the
\* markers of "not yet returned", "nothing raised", "no response yet"
None == <<"None">>
Pending == <<"Pending">>

Ids == {<<"1">>, <<"2">>}
Urls == {<<"u">>}
Terms == {<<"w">>, <<"W", "x">>}
Htmls == {<<"<", "W", ">">>, <<>>}
Texts == {<<"W">>, <<"x", " ">>}
\* raw completions the model call can return (before .strip())
Completions == {<<"W", " ">>, <<" ", "x">>, <<" ">>}

Callers == {"scrape_and_post", "direct"}

\* a text of n characters c
Fill(n, c) == [i \in 1..n |-> c]

\* pages at and beyond the limit of the summarizer, with short ones
LongHtmls == {<<"<", "W", ">">>, Fill(MaxChars, "h"), Fill(MaxChars + 1, "h")}
LongTexts == {<<"W">>, Fill(MaxChars, "t"), Fill(MaxChars + 2, "t")}

\* the arguments given to truncate_text on its own
Chars == {"a", "b"}
TruncTexts == UNION {[1..n -> Chars] : n \in 0..MaxTextLen}
TruncMaxes == (0 - 2)..(MaxTextLen + 1)

\* messages of the exceptions the steps can raise
SignInMessage == "Sign-in popup detected; manual intervention required."
Causes == {"LaunchError", "NewPageError", "NavigationTimeout",
           "ExtractionTimeout", "ExtractionError", "CloseError",
           "SummarizationError"}
PostOutcomes == {"ok", "http_error_status", "transport_failure"}

(***************************************************************************)
(* Pure functions.                                                         *)
(***************************************************************************)
TruncationMarker ==
    <<"\n", ".", ".", ".", "[", "t", "r", "u", "n", "c", "a", "t", "e", "d",
      "]", ".", ".", ".">>

\* text[:stop], with Python's reading of a negative stop
SliceTo(text, stop) ==
    IF stop >= 0
    THEN SubSeq(text, 1, IF stop < Len(text) THEN stop ELSE Len(text))
    ELSE SubSeq(text, 1, IF Len(text) + stop > 0 THEN Len(text) + stop ELSE 0)

\* the test of line 35 written with >= in place of >
truncate_text_offbyone(text, max_chars) ==
    IF Len(text) >= max_chars
    THEN SliceTo(text, max_chars) \o TruncationMarker
    ELSE text

truncate_text(text, max_chars) ==
    IF Len(text) > max_chars
    THEN SliceTo(text, max_chars) \o TruncationMarker
    ELSE text

IsSpace(c) == c \in {" ", "\n", "\t"}

RECURSIVE LStrip(_)
LStrip(s) ==
    IF s # <<>> /\ IsSpace(Head(s)) THEN LStrip(Tail(s)) ELSE s

RECURSIVE RStrip(_)
RStrip(s) ==
    IF s # <<>> /\ IsSpace(s[Len(s)])
    THEN RStrip(SubSeq(s, 1, Len(s) - 1))
    ELSE s

\* str.strip()
Strip(s) == RStrip(LStrip(s))

LowerChar(c) == IF c = "W" THEN "w" ELSE IF c = "X" THEN "x" ELSE c

\* str.lower()
Lower(s) == [i \in 1..Len(s) |-> LowerChar(s[i])]

\* sub in s
Contains(sub, s) ==
    \E i \in 0..(Len(s) - Len(sub)) : SubSeq(s, i + 1, i + Len(sub)) = sub

\* the visible text embedded as extracted, line 90 left out
Messages_rawtext(html, text, term) ==
    [system |-> "You are an expert web scraper. ...",
     user   |-> <<"Product term: ", term,
                  "\n\nHTML Content:\n", truncate_text(html, MaxChars),
                  "\n\nVisible Text:\n", text,
                  "\n\nPlease return the final product information ...">>]

\* the messages analyze_with_llm submits
Messages(html, text, term) ==
    [system |-> "You are an expert web scraper. ...",
     user   |-> <<"Product term: ", term,
                  "\n\nHTML Content:\n", truncate_text(html, MaxChars),
                  "\n\nVisible Text:\n", truncate_text(text, MaxChars),
                  "\n\nPlease return the final product information ...">>]

\* attempt ** 2 in place of 2 ** attempt
Backoff_swapped(n) == n ^ 2

\* 2 ** attempt
Backoff(n) == 2 ^ n

\* str(Exception(f"Scraping failed after {max_retries} attempts. Last error: {e}"))
ScrapeFailedMessage(retries, e) ==
    <<"Scraping failed after ", retries, " attempts. Last error: ", e>>

\* detail=str(e) in the second handler as in the first
PostFailedDetail_bare(e) == <<e>>

\* f"Error posting result: {e}"
PostFailedDetail(e) == <<"Error posting result: ", e>>

\* the two texts of the payload exchanged
Payload_swapped(id, scraped_text) ==
    [id |-> id, primary_text |-> <<>>, secondary_text |-> scraped_text]

Payload(id, scraped_text) ==
    [id |-> id, primary_text |-> scraped_text, secondary_text |-> <<>>]

NoPayload == [id |-> <<>>, primary_text |-> <<>>, secondary_text |-> <<>>]

\* HTTPException(status_code=500, detail=...)
HTTPException(detail) ==
    [status |-> ServerError, message |-> "", detail |-> detail,
     payload |-> NoPayload]

\* the dict line 179 returns (answered with the framework's status 200)
SuccessResponse(payload) ==
    [status |-> 200, message |-> "Scrape completed and data posted successfully",
     detail |-> <<>>, payload |-> payload]

(***************************************************************************)
(* State.                                                                  *)
(***************************************************************************)
VARIABLES
    pc,              \* position of the job
    caller,          \* who called scrape_product
    req,             \* the ScrapeRequest: id, url, term
    max_retries,     \* parameter of scrape_product
    attempt,         \* local of scrape_product: failed attempts so far
    browser,         \* local of scrape_product: the session bound last (0: unbound)
    launched,        \* number of sessions launch() has returned
    open,            \* the sessions launched and not closed
    sel,             \* index of the selector handle_popups is waiting for
    dismissed,       \* cookie dialogs clicked away in this call of handle_popups
    signinDetected,  \* line 66-67 ran in this attempt
    extractCalls,    \* calls of extract_raw_content in this attempt
    html_content,    \* locals of scrape_product, bound by line 144
    text_content,
    snapshotAttempt, \* the iteration in which line 144 bound them (0: never)
    page_html,       \* local html_content of extract_raw_content, line 77
    attemptsStarted, \* iterations of the while loop begun
    sleeps,          \* the arguments of asyncio.sleep, in call order
    lastFailure,     \* the last exception raised by a phase: attempt, phase, cause
    wallAttempts,    \* attempts in which a sign-in selector was found
    llmRequest,      \* the messages of the last model call
    summary,         \* the last value analyze_with_llm returned
    warned,          \* line 149 logged the term warning
    result,          \* what scrape_product returned
    error,           \* what scrape_product raised
    posts,           \* the bodies POSTed to POST_ENDPOINT, in order
    postOutcome,     \* how the POST ended
    response,        \* what scrape_and_post answered
    trunc_text,      \* a call of truncate_text on its own: text,
    trunc_max,       \*   max_chars
    trunc_out,       \*   and the value returned
    mine,            \* the sessions this job launched
    cur,             \* the job the event loop is running: 1 or 2
    parked           \* the frame of the other job, suspended (pc "none": no such job)

vars == <<pc, caller, req, max_retries, attempt, browser, launched, open, sel,
          dismissed, signinDetected, extractCalls, html_content, text_content,
          snapshotAttempt, page_html, attemptsStarted, sleeps, lastFailure, wallAttempts, llmRequest,
          summary, warned, result, error, posts, postOutcome, response,
          trunc_text, trunc_max, trunc_out, mine, cur, parked>>

\* groups of variables the steps leave alone
jobVars == <<caller, req, max_retries>>
popupVars == <<sel, dismissed, signinDetected, wallAttempts>>
snapshotVars == <<html_content, text_content, snapshotAttempt, page_html>>
llmVars == <<llmRequest, summary, warned>>
deliveryVars == <<posts, postOutcome, response>>
sessionVars == <<browser, launched, open, mine>>
schedVars == <<cur, parked>>
truncVars == <<trunc_text, trunc_max, trunc_out>>

NoFailure == [attempt |-> 0, phase |-> "none", cause |-> "none"]
NoRequest == [system |-> "", user |-> <<>>]
NoResponse == [status |-> 0, message |-> "", detail |-> <<>>, payload |-> NoPayload]

\* the frame of a call of scrape_product that has not run yet
StartFrame(c, r, m) ==
    [pc |-> "while", caller |-> c, req |-> r, max_retries |-> m,
     attempt |-> 0, browser |-> 0, mine |-> {}, sel |-> 0, dismissed |-> 0,
     signinDetected |-> FALSE, extractCalls |-> 0, html_content |-> None,
     text_content |-> None, snapshotAttempt |-> 0, page_html |-> None,
     attemptsStarted |-> 0, sleeps |-> <<>>, lastFailure |-> NoFailure,
     wallAttempts |-> 0, llmRequest |-> NoRequest, summary |-> None,
     warned |-> FALSE, result |-> Pending, error |-> Pending, posts |-> <<>>,
     postOutcome |-> "none", response |-> NoResponse]

\* no other job
NoFrame == [StartFrame("direct", [id |-> <<>>, url |-> <<>>, term |-> <<>>], 0)
               EXCEPT !.pc = "none"]

\* the frame of a job: the locals of its coroutines and its history
Frame ==
    [pc |-> pc, caller |-> caller, req |-> req, max_retries |-> max_retries,
     attempt |-> attempt, browser |-> browser, mine |-> mine, sel |-> sel,
     dismissed |-> dismissed, signinDetected |-> signinDetected,
     extractCalls |-> extractCalls, html_content |-> html_content,
     text_content |-> text_content, snapshotAttempt |-> snapshotAttempt,
     page_html |-> page_html, attemptsStarted |-> attemptsStarted,
     sleeps |-> sleeps, lastFailure |-> lastFailure,
     wallAttempts |-> wallAttempts, llmRequest |-> llmRequest,
     summary |-> summary, warned |-> warned, result |-> result,
     error |-> error, posts |-> posts, postOutcome |-> postOutcome,
     response |-> response]

\* a call of scrape_product or of scrape_and_post is entered
JobInit ==
    /\ pc = "while"
    /\ caller \in Callers
    /\ req \in [id : Ids, url : Urls, term : Terms]
    /\ max_retries \in {-1} \cup (0..MaxRetriesBound) \cup {DefaultMaxRetries}
    /\ caller = "scrape_and_post" => max_retries = DefaultMaxRetries
    /\ attempt = 0
    /\ browser = 0
    /\ launched = 0
    /\ open = {}
    /\ sel = 0
    /\ dismissed = 0
    /\ signinDetected = FALSE
    /\ extractCalls = 0
    /\ html_content = None
    /\ text_content = None
    /\ snapshotAttempt = 0
    /\ page_html = None
    /\ attemptsStarted = 0
    /\ sleeps = <<>>
    /\ lastFailure = NoFailure
    /\ wallAttempts = 0
    /\ llmRequest = NoRequest
    /\ summary = None
    /\ warned = FALSE
    /\ result = Pending
    /\ error = Pending
    /\ posts = <<>>
    /\ postOutcome = "none"
    /\ response = NoResponse
    /\ mine = {}

\* one job only
SchedIdle ==
    /\ cur = 1
    /\ parked = NoFrame

\* no call of truncate_text on its own
TruncIdle ==
    /\ trunc_text = <<>>
    /\ trunc_max = 0
    /\ trunc_out = Pending

Init ==
    /\ JobInit
    /\ TruncIdle
    /\ SchedIdle

(***************************************************************************)
(* scrape_product: the except block, lines 151-156.  It runs in the same   *)
(* step as the raise that enters it, up to the await of the sleep.         *)
(***************************************************************************)
\* line 152 left out: the failure is not counted
Except_nocount(phase, e) ==
    /\ attempt' = attempt
    /\ lastFailure' = [attempt |-> attempt + 1, phase |-> phase, cause |-> e]
    /\ IF attempt >= max_retries
       THEN /\ error' = ScrapeFailedMessage(max_retries, e)
            /\ pc' = "raised"
            /\ sleeps' = sleeps
       ELSE /\ sleeps' = Append(sleeps, Backoff(attempt))
            /\ pc' = "sleep"
            /\ error' = error

Except(phase, e) ==
    /\ attempt' = attempt + 1
    /\ lastFailure' = [attempt |-> attempt + 1, phase |-> phase, cause |-> e]
    /\ IF attempt + 1 >= max_retries
       THEN /\ error' = ScrapeFailedMessage(max_retries, e)
            /\ pc' = "raised"
            /\ sleeps' = sleeps
       ELSE /\ sleeps' = Append(sleeps, Backoff(attempt + 1))
            /\ pc' = "sleep"
            /\ error' = error

(***************************************************************************)
(* scrape_product: the loop test and launch(), lines 133-139.              *)
(***************************************************************************)
Launch ==
    /\ pc = "while"
    /\ attempt < max_retries
    /\ attemptsStarted' = attemptsStarted + 1
    /\ sel' = 0
    /\ dismissed' = 0
    /\ signinDetected' = FALSE
    /\ extractCalls' = 0
    /\ \/ /\ launched' = launched + 1
          /\ browser' = launched + 1
          /\ open' = open \cup {launched + 1}
          /\ mine' = mine \cup {launched + 1}
          /\ pc' = "newPage"
          /\ UNCHANGED <<attempt, sleeps, lastFailure, error>>
       \/ /\ Except("launch", "LaunchError")
          /\ UNCHANGED sessionVars
    /\ UNCHANGED <<schedVars, truncVars, jobVars, wallAttempts, snapshotVars, llmVars, result,
                   deliveryVars>>

\* a raise placed after the loop
LoopExit_raises ==
    /\ pc = "while"
    /\ ~(attempt < max_retries)
    /\ error' = ScrapeFailedMessage(max_retries, "none")
    /\ pc' = "raised"
    /\ UNCHANGED <<schedVars, truncVars, jobVars, attempt, sessionVars, popupVars, extractCalls,
                   snapshotVars, attemptsStarted, sleeps, lastFailure, llmVars,
                   result, deliveryVars>>

\* the loop test fails: scrape_product falls off its end
LoopExit ==
    /\ pc = "while"
    /\ ~(attempt < max_retries)
    /\ result' = None
    /\ pc' = "returned"
    /\ UNCHANGED <<schedVars, truncVars, jobVars, attempt, sessionVars, popupVars, extractCalls,
                   snapshotVars, attemptsStarted, sleeps, lastFailure, llmVars,
                   error, deliveryVars>>

\* browser.newPage(), line 140
NewPage ==
    /\ pc = "newPage"
    /\ \/ /\ pc' = "goto"
          /\ UNCHANGED <<attempt, sleeps, lastFailure, error>>
       \/ Except("launch", "NewPageError")
    /\ UNCHANGED <<schedVars, truncVars, jobVars, sessionVars, popupVars, extractCalls, snapshotVars,
                   attemptsStarted, llmVars, result, deliveryVars>>

\* page.goto(url, ...), line 142; on return handle_popups starts its first wait
Goto ==
    /\ pc = "goto"
    /\ \/ /\ pc' = "cookie_wait"
          /\ sel' = 1
          /\ UNCHANGED <<attempt, sleeps, lastFailure, error>>
       \/ /\ Except("navigation", "NavigationTimeout")
          /\ sel' = sel
    /\ UNCHANGED <<schedVars, truncVars, jobVars, sessionVars, dismissed, signinDetected,
                   wallAttempts, extractCalls, snapshotVars, attemptsStarted,
                   llmVars, result, deliveryVars>>

(***************************************************************************)
(* handle_popups, lines 39-69.                                             *)
(***************************************************************************)
\* "continue" of the cookie loop: the next selector, or on to the sign-in loop
CookieContinue ==
    IF sel < NumCookieSelectors
    THEN pc' = "cookie_wait" /\ sel' = sel + 1
    ELSE pc' = "signin_wait" /\ sel' = 1

\* page.waitForSelector(selector) of the cookie loop, line 50
CookieWait ==
    /\ pc = "cookie_wait"
    /\ \/ pc' = "cookie_click" /\ sel' = sel
       \/ CookieContinue
    /\ UNCHANGED <<schedVars, truncVars, jobVars, attempt, sessionVars, dismissed, signinDetected,
                   wallAttempts, extractCalls, snapshotVars, attemptsStarted,
                   sleeps, lastFailure, llmVars, result, error, deliveryVars>>

\* the break of line 53 left out
CookieClick_nobreak ==
    /\ pc = "cookie_click"
    /\ \/ /\ dismissed' = dismissed + 1
          /\ CookieContinue
       \/ /\ CookieContinue
          /\ dismissed' = dismissed
    /\ UNCHANGED <<schedVars, truncVars, jobVars, attempt, sessionVars, signinDetected, wallAttempts,
                   extractCalls, snapshotVars, attemptsStarted, sleeps,
                   lastFailure, llmVars, result, error, deliveryVars>>

\* page.click(selector), lines 51-55
CookieClick ==
    /\ pc = "cookie_click"
    /\ \/ /\ dismissed' = dismissed + 1
          /\ pc' = "signin_wait"
          /\ sel' = 1
       \/ /\ CookieContinue
          /\ dismissed' = dismissed
    /\ UNCHANGED <<schedVars, truncVars, jobVars, attempt, sessionVars, signinDetected, wallAttempts,
                   extractCalls, snapshotVars, attemptsStarted, sleeps,
                   lastFailure, llmVars, result, error, deliveryVars>>

\* "continue" of the sign-in loop: the next selector, or handle_popups returns
\* and extract_raw_content is called and starts its wait for the body
SigninContinue ==
    IF sel < NumSigninSelectors
    THEN /\ pc' = "signin_wait"
         /\ sel' = sel + 1
         /\ extractCalls' = extractCalls
    ELSE /\ pc' = "body_wait"
         /\ sel' = 0
         /\ extractCalls' = extractCalls + 1

\* page.waitForSelector(selector) of the sign-in loop, lines 64-69: when the
\* selector is found the exception of line 67 is raised inside the try and
\* caught by the except of line 68
SigninWait ==
    /\ pc = "signin_wait"
    /\ \/ /\ signinDetected' = TRUE
          /\ wallAttempts' = IF signinDetected THEN wallAttempts
                             ELSE wallAttempts + 1
          /\ lastFailure' = [attempt |-> attemptsStarted, phase |-> "popups",
                             cause |-> SignInMessage]
          /\ SigninContinue
       \/ /\ SigninContinue
          /\ UNCHANGED <<signinDetected, wallAttempts, lastFailure>>
    /\ UNCHANGED <<schedVars, truncVars, jobVars, attempt, sessionVars, dismissed, snapshotVars,
                   attemptsStarted, sleeps, llmVars, result, error,
                   deliveryVars>>

(***************************************************************************)
(* extract_raw_content, lines 71-82; the except re-raises.                 *)
(***************************************************************************)
BodyWait ==
    /\ pc = "body_wait"
    /\ \/ /\ pc' = "content"
          /\ UNCHANGED <<attempt, sleeps, lastFailure, error>>
       \/ Except("extraction", "ExtractionTimeout")
    /\ UNCHANGED <<schedVars, truncVars, jobVars, sessionVars, popupVars, extractCalls, snapshotVars,
                   attemptsStarted, llmVars, result, deliveryVars>>

\* page.content(), line 77
Content ==
    /\ pc = "content"
    /\ \/ /\ \E h \in Htmls : page_html' = h
          /\ pc' = "evaluate"
          /\ UNCHANGED <<attempt, sleeps, lastFailure, error>>
       \/ /\ Except("extraction", "ExtractionError")
          /\ page_html' = None
    /\ UNCHANGED <<schedVars, truncVars, jobVars, sessionVars, popupVars, extractCalls,
                   html_content, text_content, snapshotAttempt,
                   attemptsStarted, llmVars, result, deliveryVars>>

\* line 145 left out: the summarizer is called with the session still open
Evaluate_noclose ==
    /\ pc = "evaluate"
    /\ \/ /\ \E t \in Texts : text_content' = t
          /\ html_content' = page_html
          /\ snapshotAttempt' = attemptsStarted
          /\ pc' = "llm"
          /\ UNCHANGED <<attempt, sleeps, lastFailure, error>>
       \/ /\ Except("extraction", "ExtractionError")
          /\ UNCHANGED <<html_content, text_content, snapshotAttempt>>
    /\ page_html' = None
    /\ UNCHANGED <<schedVars, truncVars, jobVars, sessionVars, popupVars, extractCalls,
                   attemptsStarted, llmVars, result, deliveryVars>>

\* page.evaluate(...), lines 78-79; on return extract_raw_content returns,
\* line 144 binds html_content and text_content, and browser.close() is called
Evaluate ==
    /\ pc = "evaluate"
    /\ \/ /\ \E t \in Texts : text_content' = t
          /\ html_content' = page_html
          /\ snapshotAttempt' = attemptsStarted
          /\ pc' = "close"
          /\ UNCHANGED <<attempt, sleeps, lastFailure, error>>
       \/ /\ Except("extraction", "ExtractionError")
          /\ UNCHANGED <<html_content, text_content, snapshotAttempt>>
    /\ page_html' = None
    /\ UNCHANGED <<schedVars, truncVars, jobVars, sessionVars, popupVars, extractCalls,
                   attemptsStarted, llmVars, result, deliveryVars>>

(***************************************************************************)
(* scrape_product: browser.close(), line 145.  A close that raises may or   *)
(* may not have ended the session.                                         *)
(***************************************************************************)
\* a failure of browser.close() caught and passed over
Close_swallowed ==
    /\ pc = "close"
    /\ \/ /\ open' = open \ {browser}
          /\ lastFailure' = lastFailure
       \/ /\ lastFailure' = [attempt |-> attempt + 1, phase |-> "close",
                             cause |-> "CloseError"]
          /\ open' \in {open, open \ {browser}}
    /\ pc' = "llm"
    /\ UNCHANGED <<attempt, sleeps, error>>
    /\ UNCHANGED <<schedVars, truncVars, jobVars, browser, launched, mine, popupVars, extractCalls,
                   snapshotVars, attemptsStarted, llmVars, result,
                   deliveryVars>>

Close ==
    /\ pc = "close"
    /\ \/ /\ open' = open \ {browser}
          /\ pc' = "llm"
          /\ UNCHANGED <<attempt, sleeps, lastFailure, error>>
       \/ /\ Except("close", "CloseError")
          /\ open' \in {open, open \ {browser}}
    /\ UNCHANGED <<schedVars, truncVars, jobVars, browser, launched, mine, popupVars, extractCalls,
                   snapshotVars, attemptsStarted, llmVars, result,
                   deliveryVars>>

\* the return placed so that the loop goes on after a success
Return_noexit(final_output) ==
    /\ result' = final_output
    /\ pc' = "while"

\* return final_output, line 150
Return(final_output) ==
    /\ result' = final_output
    /\ pc' = "returned"

(***************************************************************************)
(* analyze_with_llm, lines 84-124, and lines 147-150 of scrape_product.    *)
(* The model call is a blocking call: the request is built, the call       *)
(* returns or raises, and on return the term check and the return follow.  *)
(***************************************************************************)
\* the term check of lines 148-149 made a failure of the attempt
Analyze_strict ==
    /\ pc = "llm"
    /\ llmRequest' = Messages(html_content, text_content, req.term)
    /\ \/ \E completion \in Completions :
            /\ summary' = Strip(completion)
            /\ warned' = ~Contains(Lower(req.term), Lower(Strip(completion)))
            /\ IF Contains(Lower(req.term), Lower(Strip(completion)))
               THEN /\ Return(Strip(completion))
                    /\ UNCHANGED <<attempt, sleeps, lastFailure, error>>
               ELSE /\ Except("summarization", "SummarizationError")
                    /\ result' = result
       \/ /\ Except("summarization", "SummarizationError")
          /\ UNCHANGED <<summary, warned, result>>
    /\ UNCHANGED <<schedVars, truncVars, jobVars, sessionVars, popupVars, extractCalls, snapshotVars,
                   attemptsStarted, deliveryVars>>

Analyze ==
    /\ pc = "llm"
    /\ llmRequest' = Messages(html_content, text_content, req.term)
    /\ \/ \E completion \in Completions :
            /\ summary' = Strip(completion)
            /\ warned' = ~Contains(Lower(req.term), Lower(Strip(completion)))
            /\ Return(Strip(completion))
            /\ UNCHANGED <<attempt, sleeps, lastFailure, error>>
       \/ /\ Except("summarization", "SummarizationError")
          /\ UNCHANGED <<summary, warned, result>>
    /\ UNCHANGED <<schedVars, truncVars, jobVars, sessionVars, popupVars, extractCalls, snapshotVars,
                   attemptsStarted, deliveryVars>>

\* asyncio.sleep(2 ** attempt) returns, line 156
SleepDone ==
    /\ pc = "sleep"
    /\ pc' = "while"
    /\ UNCHANGED <<schedVars, truncVars, jobVars, attempt, sessionVars, popupVars, extractCalls,
                   snapshotVars, attemptsStarted, sleeps, lastFailure, llmVars,
                   result, error, deliveryVars>>

(***************************************************************************)
(* scrape_and_post, lines 158-179.                                         *)
(***************************************************************************)
\* the failure of the scrape is posted to the collector as well
ScrapeRaised_posts ==
    /\ pc = "raised"
    /\ caller = "scrape_and_post"
    /\ response' = HTTPException(error)
    /\ posts' = Append(posts, Payload(req.id, <<>>))
    /\ pc' = "responded"
    /\ UNCHANGED <<schedVars, truncVars, jobVars, attempt, sessionVars, popupVars, extractCalls,
                   snapshotVars, attemptsStarted, sleeps, lastFailure, llmVars,
                   result, error, postOutcome>>

\* scrape_product raised: lines 166-167
ScrapeRaised ==
    /\ pc = "raised"
    /\ caller = "scrape_and_post"
    /\ response' = HTTPException(error)
    /\ pc' = "responded"
    /\ UNCHANGED <<schedVars, truncVars, jobVars, attempt, sessionVars, popupVars, extractCalls,
                   snapshotVars, attemptsStarted, sleeps, lastFailure, llmVars,
                   result, error, posts, postOutcome>>

\* scrape_product returned: lines 169-179.  requests.post and
\* raise_for_status end in one of PostOutcomes.
Post ==
    /\ pc = "returned"
    /\ caller = "scrape_and_post"
    /\ posts' = Append(posts, Payload(req.id, result))
    /\ \E o \in PostOutcomes :
         /\ postOutcome' = o
         /\ response' = IF o = "ok"
                        THEN SuccessResponse(Payload(req.id, result))
                        ELSE HTTPException(PostFailedDetail(o))
    /\ pc' = "responded"
    /\ UNCHANGED <<schedVars, truncVars, jobVars, attempt, sessionVars, popupVars, extractCalls,
                   snapshotVars, attemptsStarted, sleeps, lastFailure, llmVars,
                   result, error>>

Next ==
    \/ Launch
    \/ LoopExit
    \/ NewPage
    \/ Goto
    \/ CookieWait
    \/ CookieClick
    \/ SigninWait
    \/ BodyWait
    \/ Content
    \/ Evaluate
    \/ Close
    \/ Analyze
    \/ SleepDone
    \/ ScrapeRaised
    \/ Post

Spec == Init /\ [][Next]_vars

\* every await and every call returns or raises: each wait has its timeout
FairSpec == Spec /\ WF_vars(Next)

(***************************************************************************)
(* Two calls of scrape_product on the one event loop.  The running job     *)
(* holds the loop until it awaits; then the other job may be resumed.  The *)
(* calls of the model (line 112) and of requests.post (line 175) block the *)
(* loop, so a job is never left between line 145 and its return.           *)
(***************************************************************************)
\* the running job is at an await, has ended, or has not started
Suspended ==
    \/ pc \in {"newPage", "goto", "cookie_wait", "cookie_click", "signin_wait",
               "body_wait", "content", "evaluate", "close", "sleep"}
    \/ pc \in {"returned", "raised"} /\ caller = "direct"
    \/ pc = "responded"
    \/ pc = "while" /\ attemptsStarted = 0

\* attempt kept in a module-level variable that the jobs share
Switch_sharedAttempt ==
    /\ parked.pc # "none"
    /\ Suspended
    /\ cur' = 3 - cur
    /\ parked' = Frame
    /\ pc' = parked.pc
    /\ caller' = parked.caller
    /\ req' = parked.req
    /\ max_retries' = parked.max_retries
    /\ attempt' = attempt
    /\ browser' = parked.browser
    /\ mine' = parked.mine
    /\ sel' = parked.sel
    /\ dismissed' = parked.dismissed
    /\ signinDetected' = parked.signinDetected
    /\ extractCalls' = parked.extractCalls
    /\ html_content' = parked.html_content
    /\ text_content' = parked.text_content
    /\ snapshotAttempt' = parked.snapshotAttempt
    /\ page_html' = parked.page_html
    /\ attemptsStarted' = parked.attemptsStarted
    /\ sleeps' = parked.sleeps
    /\ lastFailure' = parked.lastFailure
    /\ wallAttempts' = parked.wallAttempts
    /\ llmRequest' = parked.llmRequest
    /\ summary' = parked.summary
    /\ warned' = parked.warned
    /\ result' = parked.result
    /\ error' = parked.error
    /\ posts' = parked.posts
    /\ postOutcome' = parked.postOutcome
    /\ response' = parked.response
    /\ UNCHANGED <<launched, open, truncVars>>

\* the event loop suspends the running job and resumes the other
Switch ==
    /\ parked.pc # "none"
    /\ Suspended
    /\ cur' = 3 - cur
    /\ parked' = Frame
    /\ pc' = parked.pc
    /\ caller' = parked.caller
    /\ req' = parked.req
    /\ max_retries' = parked.max_retries
    /\ attempt' = parked.attempt
    /\ browser' = parked.browser
    /\ mine' = parked.mine
    /\ sel' = parked.sel
    /\ dismissed' = parked.dismissed
    /\ signinDetected' = parked.signinDetected
    /\ extractCalls' = parked.extractCalls
    /\ html_content' = parked.html_content
    /\ text_content' = parked.text_content
    /\ snapshotAttempt' = parked.snapshotAttempt
    /\ page_html' = parked.page_html
    /\ attemptsStarted' = parked.attemptsStarted
    /\ sleeps' = parked.sleeps
    /\ lastFailure' = parked.lastFailure
    /\ wallAttempts' = parked.wallAttempts
    /\ llmRequest' = parked.llmRequest
    /\ summary' = parked.summary
    /\ warned' = parked.warned
    /\ result' = parked.result
    /\ error' = parked.error
    /\ posts' = parked.posts
    /\ postOutcome' = parked.postOutcome
    /\ response' = parked.response
    /\ UNCHANGED <<launched, open, truncVars>>

\* max_retries of the two calls
TwoJobRetries == <<2, 1>>

InitTwoJobs ==
    /\ JobInit
    /\ caller = "direct"
    /\ req = [id |-> <<"1">>, url |-> <<"u">>, term |-> <<"w">>]
    /\ max_retries = TwoJobRetries[1]
    /\ TruncIdle
    /\ cur = 1
    /\ parked = StartFrame("direct",
                           [id |-> <<"2">>, url |-> <<"u">>, term |-> <<"W", "x">>],
                           TwoJobRetries[2])

NextTwoJobs ==
    \/ Launch
    \/ NewPage
    \/ Goto
    \/ CookieWait
    \/ CookieClick
    \/ SigninWait
    \/ BodyWait
    \/ Content
    \/ Evaluate
    \/ Close
    \/ Analyze
    \/ SleepDone
    \/ Switch

SpecTwoJobs == InitTwoJobs /\ [][NextTwoJobs]_vars

(***************************************************************************)
(* truncate_text called on its own, lines 33-37, on every text up to       *)
(* MaxTextLen characters and every max_chars of TruncMaxes; the job does   *)
(* not run.                                                                *)
(***************************************************************************)
InitTruncate ==
    /\ JobInit
    /\ trunc_text \in TruncTexts
    /\ trunc_max \in TruncMaxes
    /\ trunc_out = Pending
    /\ SchedIdle

Truncate ==
    /\ trunc_out = Pending
    /\ trunc_out' = truncate_text(trunc_text, trunc_max)
    /\ UNCHANGED <<schedVars, trunc_text, trunc_max, jobVars, pc, attempt, sessionVars,
                   popupVars, extractCalls, snapshotVars, attemptsStarted,
                   sleeps, lastFailure, llmVars, result, error, deliveryVars>>

NextTruncate == Truncate

(***************************************************************************)
(* analyze_with_llm on long pages: the job is taken at line 147 of its     *)
(* first attempt, after an extraction and a close that succeeded, with a   *)
(* snapshot drawn from LongHtmls and LongTexts.                            *)
(***************************************************************************)
InitLLM ==
    /\ pc = "llm"
    /\ caller \in Callers
    /\ req \in [id : Ids, url : Urls, term : Terms]
    /\ max_retries = DefaultMaxRetries
    /\ attempt = 0
    /\ browser = 1
    /\ launched = 1
    /\ open = {}
    /\ sel = 0
    /\ dismissed = 0
    /\ signinDetected = FALSE
    /\ extractCalls = 1
    /\ html_content \in LongHtmls
    /\ text_content \in LongTexts
    /\ snapshotAttempt = 1
    /\ page_html = None
    /\ attemptsStarted = 1
    /\ sleeps = <<>>
    /\ lastFailure = NoFailure
    /\ wallAttempts = 0
    /\ llmRequest = NoRequest
    /\ summary = None
    /\ warned = FALSE
    /\ result = Pending
    /\ error = Pending
    /\ posts = <<>>
    /\ postOutcome = "none"
    /\ response = NoResponse
    /\ mine = {1}
    /\ TruncIdle
    /\ SchedIdle

NextLLM == Analyze

SpecLLM == InitLLM /\ [][NextLLM]_vars

SpecTruncate == InitTruncate /\ [][NextTruncate]_vars

(***************************************************************************)
(* Type invariant.                                                         *)
(***************************************************************************)
TypeOK ==
    /\ pc \in {"while", "newPage", "goto", "cookie_wait", "cookie_click",
               "signin_wait", "body_wait", "content", "evaluate", "close",
               "llm", "sleep", "returned", "raised", "responded"}
    /\ caller \in Callers
    /\ attempt \in 0..(MaxRetriesBound + DefaultMaxRetries)
    /\ browser \in 0..launched
    /\ open \subseteq 1..launched
    /\ launched <= attemptsStarted
    /\ sel \in 0..NumCookieSelectors + NumSigninSelectors
    /\ signinDetected \in BOOLEAN
    /\ warned \in BOOLEAN
    /\ lastFailure.cause \in Causes \cup {SignInMessage, "none"}
    /\ error # Pending => error[4] \in Causes
    /\ postOutcome \in PostOutcomes \cup {"none"}
    /\ snapshotAttempt \in 0..attemptsStarted
    /\ page_html \in Htmls \cup {None}
    /\ html_content \in Htmls \cup {None}
    /\ text_content \in Texts \cup {None}

(***************************************************************************)
(* The states of the retry state machine, read off the job.                *)
(***************************************************************************)
Succeeded == result # Pending /\ result # None
Failed == error # Pending
\* the phase of an attempt the job is in: launch, navigate, pop-ups, extract,
\* close, summarize; 0 outside an attempt
Phase ==
    CASE pc = "newPage" -> 1
      [] pc = "goto" -> 2
      [] pc \in {"cookie_wait", "cookie_click", "signin_wait"} -> 3
      [] pc \in {"body_wait", "content", "evaluate"} -> 4
      [] pc = "close" -> 5
      [] pc = "llm" -> 6
      [] OTHER -> 0
PostFailed == postOutcome \in {"http_error_status", "transport_failure"}
IsScrapeDetail(d) == Len(d) = 4 /\ d[1] = "Scraping failed after "
IsPostDetail(d) == Len(d) = 2 /\ d[1] = "Error posting result: "

(***************************************************************************)
(* Properties.                                                             *)
(***************************************************************************)

\* C1: whenever the loop is about to launch the session of the next attempt,
\* and whenever scrape_product has ended (returned or raised), every session
\* launched by the earlier attempts has been closed.
SessionClosedBeforeNextAttempt ==
    (pc = "while" \/ Failed \/ Succeeded) => open = {}

\* C2: in every state of a job at most one session is launched and not closed.
AtMostOneOpenSession == Cardinality(open) <= 1

\* C3: once a sign-in selector has been found in an attempt,
\* extract_raw_content is not called in that attempt and the attempt does not
\* succeed.
SigninWallAbortsAttempt ==
    signinDetected => (extractCalls = 0 /\ ~Succeeded)

\* C4: a job of the endpoint whose every attempt found a sign-in selector
\* ends after exactly 3 attempts with the server error whose detail is the
\* composed message carrying the sign-in message, and with no POST.
SigninWallEveryAttempt ==
    (pc = "responded" /\ wallAttempts = attemptsStarted) =>
        /\ attemptsStarted = DefaultMaxRetries
        /\ response = HTTPException(
               ScrapeFailedMessage(DefaultMaxRetries, SignInMessage))
        /\ posts = <<>>

\* C5: the n-th sleep is of 2^n time units; one sleep follows every failed
\* attempt but the last; a job that failed made exactly max_retries
\* attempts and max_retries - 1 sleeps.
BackoffSchedule ==
    /\ \A n \in 1..Len(sleeps) : sleeps[n] = 2 ^ n
    /\ Len(sleeps) = IF Failed THEN attempt - 1 ELSE attempt
    /\ attemptsStarted \in {attempt, attempt + 1}
    /\ Failed => /\ max_retries >= 1
                 /\ attemptsStarted = max_retries
                 /\ attempt = max_retries
                 /\ Len(sleeps) = max_retries - 1
                 /\ pc # "sleep"
BackoffScheduleWitness ==
    /\ Failed
    /\ max_retries = 3
    /\ attemptsStarted = 3
    /\ sleeps = <<2, 4>>

\* C6: when the summarizer returns, scrape_product is Succeeded with that
\* output, and from then on no attempt starts, no session is launched, no
\* sleep is issued and the result stays.
SuccessIsFinal ==
    /\ [](summary # None => (Succeeded /\ result = summary))
    /\ [][Succeeded => /\ attemptsStarted' = attemptsStarted
                       /\ attempt' = attempt
                       /\ launched' = launched
                       /\ sleeps' = sleeps
                       /\ result' = result]_vars
SuccessIsFinalWitness ==
    /\ Succeeded
    /\ attemptsStarted = 2
    /\ attempt = 1
    /\ sleeps = <<2>>
    /\ pc = "responded"

\* C7: once a phase of attempt n has raised a failure, the attempt is over:
\* the failure is counted, and the job is backing off towards attempt n+1
\* when n < max_retries and is Failed otherwise, with the composed error
\* carrying the cause of that last failure.
FailureAdvances ==
    LET n == lastFailure.attempt IN
    (n # 0 /\ attemptsStarted = n) =>
        /\ attempt = n
        /\ IF n < max_retries
           THEN pc \in {"sleep", "while"} /\ ~Failed
           ELSE /\ Failed
                /\ error = ScrapeFailedMessage(max_retries, lastFailure.cause)

\* C8: at most one POST per job, a POST only after scrape_product succeeded,
\* none after it failed, and after a failed POST no attempt, no session and
\* no POST follows.
DeliverOnce ==
    /\ [](/\ Len(posts) <= 1
          /\ posts # <<>> => Succeeded
          /\ Failed => posts = <<>>)
    /\ [][PostFailed => /\ attemptsStarted' = attemptsStarted
                        /\ launched' = launched
                        /\ posts' = posts]_vars
DeliverOnceWitness ==
    /\ PostFailed
    /\ Len(posts) = 1
    /\ pc = "responded"

\* C9: the answer is the success response exactly when the scrape succeeded
\* and the POST ended ok; a failed scrape and a failed POST are each answered
\* with status 500, the first with the composed scrape message and the
\* second with the posting message, and no detail is both.
ResponseContract ==
    pc = "responded" =>
        /\ response.status = 200 <=> (Succeeded /\ postOutcome = "ok")
        /\ response.status = 200 =>
               response.message = "Scrape completed and data posted successfully"
        /\ response.status # 200 => response.status = ServerError
        /\ Failed <=> IsScrapeDetail(response.detail)
        /\ PostFailed <=> IsPostDetail(response.detail)
        /\ ~(IsScrapeDetail(response.detail) /\ IsPostDetail(response.detail))
ResponseContractWitness ==
    /\ pc = "responded"
    /\ Succeeded
    /\ postOutcome = "transport_failure"
    /\ response.status = ServerError

\* C10: every body POSTed carries the id of the request, the output of the
\* summarizer as primary_text and the empty string as secondary_text, and
\* it is the payload of the success response.
PostedBody ==
    /\ \A i \in 1..Len(posts) :
         /\ posts[i].id = req.id
         /\ posts[i].primary_text = summary
         /\ posts[i].secondary_text = <<>>
    /\ response.status = 200 => (Len(posts) = 1 /\ response.payload = posts[1])
PostedBodyWitness ==
    /\ response.status = 200
    /\ attempt >= 1
    /\ posts = <<[id |-> <<"2">>, primary_text |-> <<"W">>,
                  secondary_text |-> <<>>]>>

\* C11 as stated, for every max_chars: the text itself when it is no longer
\* than max_chars, and otherwise max_chars characters, the first ones of the
\* text, followed by the marker.
TruncateAnyMax ==
    trunc_out # Pending =>
        IF Len(trunc_text) <= trunc_max
        THEN trunc_out = trunc_text
        ELSE /\ Len(trunc_out) = trunc_max + Len(TruncationMarker)
             /\ \A i \in 1..trunc_max : trunc_out[i] = trunc_text[i]
             /\ \A k \in 1..Len(TruncationMarker) :
                    trunc_out[trunc_max + k] = TruncationMarker[k]

\* C11 amended, for every max_chars >= 0: the text itself when it is no
\* longer than max_chars, and otherwise its first max_chars characters
\* followed by the marker.
TruncateNonNegativeMax ==
    (trunc_out # Pending /\ trunc_max >= 0) =>
        IF Len(trunc_text) <= trunc_max
        THEN trunc_out = trunc_text
        ELSE /\ Len(trunc_out) = trunc_max + Len(TruncationMarker)
             /\ \A i \in 1..trunc_max : trunc_out[i] = trunc_text[i]
             /\ \A k \in 1..Len(TruncationMarker) :
                    trunc_out[trunc_max + k] = TruncationMarker[k]
TruncateWitness ==
    /\ trunc_text = <<"a", "b", "a">>
    /\ trunc_max = 2
    /\ trunc_out = <<"a", "b">> \o TruncationMarker

BoundedRetry ==
    /\ (max_retries >= 1) => <>(Succeeded \/ Failed)
    /\ [][attempt' >= attempt /\ attemptsStarted' >= attemptsStarted]_vars
    /\ [](max_retries >= 1 =>
            (attempt <= max_retries /\ attemptsStarted <= max_retries))
BoundedRetryWitness ==
    /\ Failed
    /\ max_retries = 2
    /\ attemptsStarted = 2

\* C15: the cookie selectors are waited for in their order, one click at
\* most succeeds in a call and nothing of the cookie loop follows it, and
\* handle_popups always returns normally into extraction, also when nothing
\* was found.
CookieDismissal ==
    /\ [](/\ dismissed <= 1
          /\ dismissed = 1 => pc \notin {"cookie_wait", "cookie_click"})
    /\ [][(pc = "goto" /\ Phase' = 3) => (pc' = "cookie_wait" /\ sel' = 1)]_vars
    /\ [][(pc \in {"cookie_wait", "cookie_click"} /\ Phase' = 3) =>
            \/ pc = "cookie_wait" /\ pc' = "cookie_click" /\ sel' = sel
            \/ pc' = "cookie_wait" /\ sel' = sel + 1
                 /\ sel' <= NumCookieSelectors /\ dismissed' = dismissed
            \/ pc' = "signin_wait" /\ sel' = 1]_vars
    /\ [][(Phase = 3 /\ Phase' # 3) =>
            /\ pc' = "body_wait"
            /\ extractCalls' = 1
            /\ attempt' = attempt
            /\ error' = error]_vars
CookieDismissalWitness ==
    /\ pc = "body_wait"
    /\ dismissed = 1
    /\ ~signinDetected

\* C16: when the summarizer returns an output that does not contain the
\* term, case ignored, scrape_product returns that output in the same step,
\* logs the warning, counts no failure and issues no sleep; and no attempt
\* starts afterwards.
TermCheckIsSoft ==
    /\ [][(pc = "llm" /\ summary' # None
             /\ ~Contains(Lower(req.term), Lower(summary'))) =>
            /\ warned'
            /\ pc' = "returned"
            /\ result' = summary'
            /\ attempt' = attempt
            /\ sleeps' = sleeps
            /\ error' = error]_vars
    /\ [][warned => attemptsStarted' = attemptsStarted]_vars
    /\ [](warned => (Succeeded /\ ~Contains(Lower(req.term), Lower(result))))
TermCheckIsSoftWitness ==
    /\ warned
    /\ req.term = <<"W", "x">>
    /\ result = <<"W">>
    /\ attempt = 0

\* C18: with max_retries <= 0 no attempt starts, no session is launched, no
\* sleep is issued, nothing is raised, and scrape_product returns None.
NoAttemptWithoutRetries ==
    max_retries <= 0 =>
        /\ attemptsStarted = 0
        /\ launched = 0
        /\ sleeps = <<>>
        /\ error = Pending
        /\ pc \in {"while", "returned"}
        /\ pc = "returned" => result = None
        /\ ~Succeeded /\ ~Failed
NoAttemptWithoutRetriesWitness ==
    /\ max_retries = 0 - 1
    /\ pc = "returned"
    /\ result = None

\* C19: a browser.close() that raises ends the attempt as a failure: it is
\* counted, the summarizer is not called in that attempt, the job backs off
\* or raises the composed error with the cause of the close, and a later
\* call of the summarizer uses a snapshot bound in a later attempt.
CloseFailureCounts ==
    /\ [][(pc = "close" /\ pc' \notin {"close", "llm"}) =>
            /\ attempt' = attempt + 1
            /\ llmRequest' = llmRequest /\ summary' = summary
            /\ lastFailure'.phase = "close"
            /\ IF attempt + 1 < max_retries
               THEN pc' = "sleep" /\ sleeps' = Append(sleeps, 2 ^ (attempt + 1))
               ELSE pc' = "raised" /\
                    error' = ScrapeFailedMessage(max_retries, "CloseError")]_vars
    /\ []((lastFailure.phase = "close" /\ lastFailure.attempt = attemptsStarted)
            => (pc \in {"sleep", "while", "raised", "responded"} /\ ~Succeeded))
    /\ []((lastFailure.phase = "close" /\ pc = "llm")
            => snapshotAttempt > lastFailure.attempt)
CloseFailureCountsWitness ==
    /\ lastFailure.phase = "close"
    /\ pc = "llm"
    /\ snapshotAttempt = 2

\* C17: the request the summarizer submits carries the term as given, the
\* html truncated at 10000 characters and the text truncated at 10000
\* characters, each by its own length.
RequestContents ==
    llmRequest # NoRequest =>
        /\ llmRequest.user[2] = req.term
        /\ llmRequest.user[4] = truncate_text(html_content, 10000)
        /\ llmRequest.user[6] = truncate_text(text_content, 10000)
        /\ Len(html_content) <= 10000 => llmRequest.user[4] = html_content
        /\ Len(text_content) <= 10000 => llmRequest.user[6] = text_content
        /\ Len(html_content) > 10000 =>
               Len(llmRequest.user[4]) = 10000 + Len(TruncationMarker)
        /\ Len(text_content) > 10000 =>
               Len(llmRequest.user[6]) = 10000 + Len(TruncationMarker)
RequestContentsWitness ==
    /\ llmRequest # NoRequest
    /\ Len(html_content) = 3
    /\ Len(text_content) = 10002
    /\ Len(llmRequest.user[6]) = 10018
    /\ llmRequest.user[4] = html_content

\* the attempts, the sleeps and the sessions of the job of frame f follow
\* from its own failures alone
JobSchedule(f) ==
    /\ \A n \in 1..Len(f.sleeps) : f.sleeps[n] = 2 ^ n
    /\ Len(f.sleeps) = IF f.error # Pending THEN f.attempt - 1 ELSE f.attempt
    /\ f.attemptsStarted \in {f.attempt, f.attempt + 1}
    /\ f.attemptsStarted <= f.max_retries
    /\ f.error # Pending => f.attempt = f.max_retries
    /\ f.browser \in f.mine \cup {0}
    /\ Cardinality(f.mine) <= f.attemptsStarted

\* C12: a step of the running job leaves the frame of the other job as it
\* is, launches and closes only sessions of its own, and a switch hands each
\* job back exactly the frame it was suspended with; so in every
\* interleaving each job keeps its own attempt counter, sessions, sleeps
\* and outcome.
JobsIndependent ==
    /\ [][cur' = cur => parked' = parked]_vars
    /\ [][cur' # cur => /\ parked' = Frame
                        /\ Frame' = parked
                        /\ open' = open
                        /\ launched' = launched]_vars
    /\ [][(open \ open') \subseteq mine /\ (open' \ open) \subseteq mine']_vars
    /\ [](/\ mine \cap parked.mine = {}
          /\ JobSchedule(Frame)
          /\ JobSchedule(parked))
JobsIndependentWitness ==
    /\ cur = 2
    /\ parked.pc = "sleep"
    /\ parked.sleeps = <<2>>
    /\ parked.mine = {1}
    /\ pc = "goto"
    /\ open = {1, 2}

====
